---- MODULE Spec2Model ----
(***************************************************************************)
(* Verification model of four units of HOOMD-blue:                         *)
(*   - FlatManifold            (hoomd/md/FlatManifold.cc)                  *)
(*   - EvaluatorVanDerWaals    (hoomd/md/EvaluatorVanDerWaals.h)           *)
(*   - the two-pass three-body orchestration that drives the evaluator     *)
(*   - ActiveForceComputeGPU   (libhoomd/computes_gpu/...GPU.cc)           *)
(* Each unit has its own specification (SpecFlat, SpecVdW, SpecTri,        *)
(* SpecActive); the variables of the other units stay at their idle value. *)
(***************************************************************************)
EXTENDS Integers, Sequences, FiniteSets, TLC

VARIABLES
    \* ---- FlatManifold ----
    manifold,     \* the FlatManifold object (NoObject before construction)
    fm_surf,      \* the selector the constructor was called with
    fm_shift,     \* the shift the constructor was called with
    fm_alloc,     \* content of the m_surf member's storage before the constructor ran
    fm_query,     \* the last implicit_function / derivative call and its result
    \* ---- EvaluatorVanDerWaals ----
    evaluator,    \* the evaluator object (NoObject before construction)
    vdw_call,     \* the last member call: its arguments as passed in and as left behind
    \* ---- two-pass three-body orchestration ----
    tri_cfg,      \* the step's inputs: pair distances, cutoff, parameters, neighbor list
    tri_phase,    \* "idle", "pass1", "pass2" or "done"
    tri_p1,       \* per particle: position in pass 1 (0 = phi not yet zeroed)
    tri_p2,       \* per particle: position in pass 2 (0 = self energy not yet evaluated)
    tri_zeroed,   \* per particle: how often phi was zero-initialised in this step
    tri_phi,      \* per particle: the density accumulator
    tri_out,      \* per particle: self energy and the force coefficients per neighbor
    tri_last,     \* the last evaluator call of pass 2 and the phi it was given
    \* ---- ActiveForceComputeGPU ----
    af_env,       \* execution configuration and system definition: CUDA, dimensions, bodies
    af_obj,       \* "none", "constructed", or "runtime_error" (the constructor threw)
    af_params,    \* m_rx, m_ry, m_rotationDiff, m_orientationLink, m_seed
    af_active,    \* m_activeVec and m_activeMag, by particle tag
    af_force,     \* m_force, by storage index
    af_pdata,     \* positions and orientations by storage index, and the reverse tags
    af_pc,        \* position inside computeForces ("idle" between calls)
    af_call,      \* the timestep of the current call and what shouldCompute answered
    af_steps,     \* the pipeline steps the current (or last) call has invoked, in order
    af_hist,      \* force buffer and active state remembered from the previous call
    af_launch     \* the last kernel launch: the handles behind its pointers, what it writes

flatVars == <<manifold, fm_surf, fm_shift, fm_alloc, fm_query>>
vdwVars == <<evaluator, vdw_call>>
triVars == <<tri_cfg, tri_phase, tri_p1, tri_p2, tri_zeroed, tri_phi, tri_out, tri_last>>
afVars == <<af_env, af_obj, af_params, af_active, af_force, af_pdata, af_pc, af_call,
            af_steps, af_hist, af_launch>>

vars == <<manifold, fm_surf, fm_shift, fm_alloc, fm_query, evaluator, vdw_call,
          tri_cfg, tri_phase, tri_p1, tri_p2, tri_zeroed, tri_phi, tri_out, tri_last,
          af_env, af_obj, af_params, af_active, af_force, af_pdata, af_pc, af_call,
          af_steps, af_hist, af_launch>>

NoObject == [kind |-> "none"]
NoQuery == [op |-> "none"]

FlatIdle ==
    /\ manifold = NoObject
    /\ fm_surf = <<>>
    /\ fm_shift = 0
    /\ fm_alloc = 0
    /\ fm_query = NoQuery

VdWIdle ==
    /\ evaluator = NoObject
    /\ vdw_call = NoQuery

TriIdle ==
    /\ tri_cfg = NoObject
    /\ tri_phase = "idle"
    /\ tri_p1 = <<>>
    /\ tri_p2 = <<>>
    /\ tri_zeroed = <<>>
    /\ tri_phi = <<>>
    /\ tri_out = <<>>
    /\ tri_last = NoQuery

ActiveIdle ==
    /\ af_env = NoObject
    /\ af_obj = "none"
    /\ af_params = NoObject
    /\ af_active = <<>>
    /\ af_force = <<>>
    /\ af_pdata = NoObject
    /\ af_pc = "idle"
    /\ af_call = NoQuery
    /\ af_steps = <<>>
    /\ af_hist = NoObject
    /\ af_launch = NoQuery

(***************************************************************************)
(* FlatManifold                                                            *)
(***************************************************************************)
MaxCoord == 1
MaxShift == 2
MaxSelLen == 2

Letters == {"X", "Y", "Z", "x", "y"}
Selectors == UNION {[1..n -> Letters] : n \in 0..MaxSelLen}
Coords == -1..MaxCoord
Points == (Coords \X Coords \X Coords) \cup {<<5, 5, 7>>}
Shifts == -1..MaxShift
\* values the storage of the never-initialised member m_surf may hold
UninitSurf == {0, 7}

\* default value of the members xy, xz, yz (declared in FlatManifold.h)
FlagDefault == FALSE

\* FlatManifold::FlatManifold with the first test reduced to surf == "XY"
FlatManifold_noYX(surf, shift, alloc) ==
    LET base == [kind |-> "FlatManifold", m_shift |-> shift,
                 xy |-> FlagDefault, xz |-> FlagDefault, yz |-> FlagDefault,
                 m_surf |-> alloc]
    IN  IF surf = <<"X", "Y">>
        THEN [base EXCEPT !.xy = TRUE, !.m_surf = 4]
        ELSE IF surf = <<"X", "Z">> \/ surf = <<"Z", "X">>
             THEN [base EXCEPT !.xz = TRUE, !.m_surf = 5]
             ELSE IF surf = <<"Y", "Z">> \/ surf = <<"Z", "Y">>
                  THEN [base EXCEPT !.yz = TRUE, !.m_surf = 6]
                  ELSE base

\* FlatManifold::FlatManifold with a trailing else that falls back to YZ
FlatManifold_fallbackYZ(surf, shift, alloc) ==
    LET base == [kind |-> "FlatManifold", m_shift |-> shift,
                 xy |-> FlagDefault, xz |-> FlagDefault, yz |-> FlagDefault,
                 m_surf |-> alloc]
    IN  IF surf = <<"X", "Y">> \/ surf = <<"Y", "X">>
        THEN [base EXCEPT !.xy = TRUE, !.m_surf = 4]
        ELSE IF surf = <<"X", "Z">> \/ surf = <<"Z", "X">>
             THEN [base EXCEPT !.xz = TRUE, !.m_surf = 5]
             ELSE [base EXCEPT !.yz = TRUE, !.m_surf = 6]

\* the object the constructor leaves behind; it has no failing path
FlatManifold(surf, shift, alloc) ==
    LET base == [kind |-> "FlatManifold", m_shift |-> shift,
                 xy |-> FlagDefault, xz |-> FlagDefault, yz |-> FlagDefault,
                 m_surf |-> alloc]
    IN  IF surf = <<"X", "Y">> \/ surf = <<"Y", "X">>
        THEN [base EXCEPT !.xy = TRUE, !.m_surf = 4]
        ELSE IF surf = <<"X", "Z">> \/ surf = <<"Z", "X">>
             THEN [base EXCEPT !.xz = TRUE, !.m_surf = 5]
             ELSE IF surf = <<"Y", "Z">> \/ surf = <<"Z", "Y">>
                  THEN [base EXCEPT !.yz = TRUE, !.m_surf = 6]
                  ELSE base

\* implicit_function with the xz branch reading point.x
implicit_function_xzReadsX(self, point) ==
    IF self.xy
    THEN point[3] - self.m_shift
    ELSE IF self.xz
         THEN point[1] - self.m_shift
         ELSE point[1] - self.m_shift

implicit_function(self, point) ==
    IF self.xy
    THEN point[3] - self.m_shift
    ELSE IF self.xz
         THEN point[2] - self.m_shift
         ELSE point[1] - self.m_shift

\* derivative with the xz and fall-through results exchanged
derivative_swapped(self, point) ==
    IF self.xy
    THEN <<0, 0, 1>>
    ELSE IF self.xz
         THEN <<1, 0, 0>>
         ELSE <<0, 1, 0>>

derivative(self, point) ==
    IF self.xy
    THEN <<0, 0, 1>>
    ELSE IF self.xz
         THEN <<0, 1, 0>>
         ELSE <<1, 0, 0>>

InitFlat ==
    /\ manifold = NoObject
    /\ fm_surf = <<>>
    /\ fm_shift = 0
    /\ fm_alloc \in UninitSurf
    /\ fm_query = NoQuery
    /\ VdWIdle
    /\ TriIdle
    /\ ActiveIdle

Construct_FlatManifold ==
    /\ manifold = NoObject
    /\ \E surf \in Selectors, shift \in Shifts :
          /\ manifold' = FlatManifold(surf, shift, fm_alloc)
          /\ fm_surf' = surf
          /\ fm_shift' = shift
    /\ UNCHANGED <<fm_alloc, fm_query>>
    /\ UNCHANGED <<vdwVars, triVars, afVars>>

Call_implicit_function ==
    /\ manifold # NoObject
    /\ \E point \in Points :
          fm_query' = [op |-> "implicit_function", point |-> point,
                       value |-> implicit_function(manifold, point)]
    /\ UNCHANGED <<manifold, fm_surf, fm_shift, fm_alloc>>
    /\ UNCHANGED <<vdwVars, triVars, afVars>>

Call_derivative ==
    /\ manifold # NoObject
    /\ \E point \in Points :
          fm_query' = [op |-> "derivative", point |-> point,
                       value |-> derivative(manifold, point)]
    /\ UNCHANGED <<manifold, fm_surf, fm_shift, fm_alloc>>
    /\ UNCHANGED <<vdwVars, triVars, afVars>>

NextFlat ==
    \/ Construct_FlatManifold
    \/ Call_implicit_function
    \/ Call_derivative

SpecFlat == InitFlat /\ [][NextFlat]_vars

(***************************************************************************)
(* Scalar arithmetic.  A Scalar is an exact fraction [n, d] in lowest      *)
(* terms with d > 0; NonFinite stands for the inf/NaN a division by zero   *)
(* produces and is absorbing.                                              *)
(***************************************************************************)
NonFinite == [n |-> 0, d |-> 0]
IsFinite(x) == x.d # 0
Abs(k) == IF k < 0 THEN -k ELSE k

RECURSIVE GCD(_, _)
GCD(p, q) == IF q = 0 THEN p ELSE GCD(q, p % q)

Rat(num, den) ==
    IF den = 0
    THEN NonFinite
    ELSE LET g == GCD(Abs(num), Abs(den))
             sgn == IF den < 0 THEN -1 ELSE 1
         IN  [n |-> (sgn * num) \div g, d |-> (sgn * den) \div g]

Scalar(k) == Rat(k, 1)

\* sums and products reduce by common factors before they multiply
RAdd(x, y) ==
    IF IsFinite(x) /\ IsFinite(y)
    THEN LET g == GCD(x.d, y.d)
         IN  Rat(x.n * (y.d \div g) + y.n * (x.d \div g), (x.d \div g) * y.d)
    ELSE NonFinite

RNeg(x) == IF IsFinite(x) THEN [n |-> -x.n, d |-> x.d] ELSE NonFinite
RSub(x, y) == RAdd(x, RNeg(y))

RMul(x, y) ==
    IF IsFinite(x) /\ IsFinite(y)
    THEN LET g1 == GCD(Abs(x.n), y.d)
             g2 == GCD(Abs(y.n), x.d)
         IN  Rat((x.n \div g1) * (y.n \div g2), (x.d \div g2) * (y.d \div g1))
    ELSE NonFinite

RDiv(x, y) ==
    IF IsFinite(x) /\ IsFinite(y) /\ y.n # 0
    THEN RMul(x, Rat(y.d, y.n))
    ELSE NonFinite

RLess(x, y) == IsFinite(x) /\ IsFinite(y) /\ x.n * y.d < y.n * x.d

\* fast::sqrt on the squares of whole distances, the only arguments drawn here
fast_sqrt(x) ==
    IF IsFinite(x) /\ x.d = 1 /\ x.n >= 0 /\ \E r \in 0..x.n : r * r = x.n
    THEN Scalar(CHOOSE r \in 0..x.n : r * r = x.n)
    ELSE NonFinite

\* the constant M_PI, rounded to a whole number so that every intermediate
\* fraction stays within 32-bit integers; no property depends on its value
M_PI == Rat(3, 1)

(***************************************************************************)
(* EvaluatorVanDerWaals                                                    *)
(***************************************************************************)
MaxR == 2

Distances == 0..MaxR
\* squared distances and squared cutoffs handed to the constructor
SqDistances == {Scalar(r * r) : r \in Distances}
SqCutoffs == {Scalar(r * r) : r \in 1..MaxR}
\* parameter blocks (a, b, alpha, T)
ParamBlocks == {<<1, 1, 1, 1>>, <<2, 0, 1, 3>>, <<0, 2, 0, 1>>}
\* values a caller's out-variables and accumulators hold when it makes a call
CallerScalars == {Scalar(0), Scalar(1), Rat(-3, 2)}

EvaluatorVanDerWaals(_rij_sq, _rcutsq, _params) ==
    [kind |-> "EvaluatorVanDerWaals",
     rij_sq |-> _rij_sq, rcutsq |-> _rcutsq,
     a |-> Scalar(_params[1]), b |-> Scalar(_params[2]),
     alpha |-> Scalar(_params[3]), T |-> Scalar(_params[4])]

setRij(self, rsq) == [self EXCEPT !.rij_sq = rsq]

\* the return value; fR and fA are not touched
evalRepulsiveAndAttractive(self) == RLess(self.rij_sq, self.rcutsq)

\* norm after "norm /= rcutsq*rcut"
DensityNorm(self) ==
    LET norm == RDiv(Scalar(15), RMul(Scalar(2), M_PI))
        rcut == fast_sqrt(self.rcutsq)
    IN  RDiv(norm, RMul(self.rcutsq, rcut))

\* fac = 1 - rij/rcut
WeightFac(self) ==
    LET rcut == fast_sqrt(self.rcutsq)
        rij == fast_sqrt(self.rij_sq)
    IN  RSub(Scalar(1), RDiv(rij, rcut))

\* evalPhi storing the contribution instead of adding it
evalPhi_overwrite(self, phi) ==
    IF RLess(self.rij_sq, self.rcutsq)
    THEN RMul(RMul(WeightFac(self), WeightFac(self)), DensityNorm(self))
    ELSE phi

\* the value evalPhi leaves in its reference argument phi
evalPhi(self, phi) ==
    IF RLess(self.rij_sq, self.rcutsq)
    THEN RAdd(phi, RMul(RMul(WeightFac(self), WeightFac(self)), DensityNorm(self)))
    ELSE phi

\* the ij force coefficient computed inside the cutoff
ForceDivr(self, phi) ==
    LET rho_i == RAdd(phi, DensityNorm(self))
        rcut == fast_sqrt(self.rcutsq)
        rij == fast_sqrt(self.rij_sq)
        eos == RSub(RSub(RDiv(RDiv(self.T, rho_i), RSub(Scalar(1), RMul(self.b, rho_i))),
                         self.a),
                    RMul(RMul(RMul(self.alpha, self.a), self.b), rho_i))
    IN  RDiv(RDiv(RMul(RMul(RMul(eos, Scalar(2)), DensityNorm(self)), WeightFac(self)),
                  rcut),
             rij)

\* evalForceij with the cutoff test made inclusive
evalForceij_inclusive(self, fR, fA, chi, phi, bij, force_divr, potential_eng) ==
    IF RLess(self.rij_sq, self.rcutsq) \/ self.rij_sq = self.rcutsq
    THEN [bij |-> bij, force_divr |-> ForceDivr(self, phi), potential_eng |-> potential_eng]
    ELSE [bij |-> bij, force_divr |-> force_divr, potential_eng |-> potential_eng]

\* the values evalForceij leaves in its reference arguments
evalForceij(self, fR, fA, chi, phi, bij, force_divr, potential_eng) ==
    IF RLess(self.rij_sq, self.rcutsq)
    THEN [bij |-> bij, force_divr |-> ForceDivr(self, phi), potential_eng |-> potential_eng]
    ELSE [bij |-> bij, force_divr |-> force_divr, potential_eng |-> potential_eng]

\* the value evalSelfEnergy stores in energy: T*logf(logf_arg) + poly
evalSelfEnergy(self, phi) ==
    LET rho_i == RAdd(phi, DensityNorm(self))
    IN  [T |-> self.T,
         logf_arg |-> RDiv(RMul(self.b, rho_i), RSub(Scalar(1), RMul(self.b, rho_i))),
         poly |-> RSub(RSub(Scalar(0), RMul(self.a, rho_i)),
                       RMul(RMul(RMul(RMul(RMul(Rat(1, 2), self.alpha), self.a), self.b),
                                 rho_i), rho_i))]

InitVdW ==
    /\ FlatIdle
    /\ TriIdle
    /\ ActiveIdle
    /\ evaluator = NoObject
    /\ vdw_call = NoQuery

Construct_EvaluatorVanDerWaals ==
    /\ evaluator = NoObject
    /\ \E rsq \in SqDistances, rcsq \in SqCutoffs, params \in ParamBlocks :
          evaluator' = EvaluatorVanDerWaals(rsq, rcsq, params)
    /\ UNCHANGED vdw_call
    /\ UNCHANGED <<flatVars, triVars, afVars>>

Call_setRij ==
    /\ evaluator # NoObject
    /\ \E rsq \in SqDistances :
          /\ evaluator' = setRij(evaluator, rsq)
          /\ vdw_call' = [op |-> "setRij"]
    /\ UNCHANGED <<flatVars, triVars, afVars>>

Call_evalRepulsiveAndAttractive ==
    /\ evaluator # NoObject
    /\ vdw_call' = [op |-> "evalRepulsiveAndAttractive",
                    ret |-> evalRepulsiveAndAttractive(evaluator)]
    /\ UNCHANGED evaluator
    /\ UNCHANGED <<flatVars, triVars, afVars>>

Call_evalPhi ==
    /\ evaluator # NoObject
    /\ \E phi \in CallerScalars :
          vdw_call' = [op |-> "evalPhi", in |-> [phi |-> phi],
                       out |-> [phi |-> evalPhi(evaluator, phi)]]
    /\ UNCHANGED evaluator
    /\ UNCHANGED <<flatVars, triVars, afVars>>

Call_evalForceij ==
    /\ evaluator # NoObject
    /\ \E phi \in CallerScalars, bij \in CallerScalars,
          force_divr \in CallerScalars, potential_eng \in CallerScalars :
          vdw_call' = [op |-> "evalForceij",
                       in |-> [phi |-> phi, bij |-> bij, force_divr |-> force_divr,
                               potential_eng |-> potential_eng],
                       out |-> evalForceij(evaluator, Scalar(0), Scalar(0), Scalar(0), phi,
                                           bij, force_divr, potential_eng)]
    /\ UNCHANGED evaluator
    /\ UNCHANGED <<flatVars, triVars, afVars>>

Call_evalSelfEnergy ==
    /\ evaluator # NoObject
    /\ \E phi \in CallerScalars :
          vdw_call' = [op |-> "evalSelfEnergy", in |-> [phi |-> phi],
                       out |-> [energy |-> evalSelfEnergy(evaluator, phi)]]
    /\ UNCHANGED evaluator
    /\ UNCHANGED <<flatVars, triVars, afVars>>

NextVdW ==
    \/ Construct_EvaluatorVanDerWaals
    \/ Call_setRij
    \/ Call_evalRepulsiveAndAttractive
    \/ Call_evalPhi
    \/ Call_evalForceij
    \/ Call_evalSelfEnergy

SpecVdW == InitVdW /\ [][NextVdW]_vars

(***************************************************************************)
(* Two-pass orchestration of a three-body evaluator with a per-particle    *)
(* density: pass 1 accumulates phi for every particle, a barrier follows,  *)
(* pass 2 evaluates self energies and ij forces.  Particles advance        *)
(* independently inside a pass.                                            *)
(***************************************************************************)
TriParticles == {1, 2, 3}
TriPairs == {pr \in SUBSET TriParticles : Cardinality(pr) = 2}
TriSqDistances == {Scalar(r * r) : r \in 1..MaxR}
TriParamBlocks == {<<1, 1, 1, 1>>, <<2, 0, 1, 3>>}

\* the neighbors of particle i, in index order
NeighborSeq(bonds, i) ==
    LET nb == {j \in TriParticles : j # i /\ {i, j} \in bonds}
        RECURSIVE Ordered(_)
        Ordered(rest) ==
            IF rest = {} THEN <<>>
            ELSE LET m == CHOOSE x \in rest : \A y \in rest : x <= y
                 IN  <<m>> \o Ordered(rest \ {m})
    IN  Ordered(nb)

\* the evaluator the orchestrator constructs for the pair ij
PairEvaluator(i, j) ==
    EvaluatorVanDerWaals(tri_cfg.rsq[{i, j}], tri_cfg.rcutsq, tri_cfg.params)

\* phi of every particle before its zero-initialisation in the first step
StalePhi == [i \in TriParticles |-> Scalar(1)]
NoForces == [i \in TriParticles |-> [energy |-> NoQuery, force_divr |-> <<>>]]

InitTri ==
    /\ FlatIdle
    /\ VdWIdle
    /\ ActiveIdle
    /\ \E rsq \in [TriPairs -> TriSqDistances], rcsq \in SqCutoffs,
          params \in TriParamBlocks, bonds \in SUBSET TriPairs :
          tri_cfg = [rsq |-> rsq, rcutsq |-> rcsq, params |-> params,
                     nlist |-> [i \in TriParticles |-> NeighborSeq(bonds, i)]]
    /\ tri_phase = "pass1"
    /\ tri_p1 = [i \in TriParticles |-> 0]
    /\ tri_p2 = [i \in TriParticles |-> 0]
    /\ tri_zeroed = [i \in TriParticles |-> 0]
    /\ tri_phi = StalePhi
    /\ tri_out = NoForces
    /\ tri_last = NoQuery

\* pass 1, first step for particle i: zero-initialise its accumulator
Pass1_ZeroPhi(i) ==
    /\ tri_phase = "pass1"
    /\ tri_p1[i] = 0
    /\ tri_phi' = [tri_phi EXCEPT ![i] = Scalar(0)]
    /\ tri_zeroed' = [tri_zeroed EXCEPT ![i] = @ + 1]
    /\ tri_p1' = [tri_p1 EXCEPT ![i] = 1]
    /\ UNCHANGED <<tri_cfg, tri_phase, tri_p2, tri_out, tri_last>>
    /\ UNCHANGED <<flatVars, vdwVars, afVars>>

\* pass 1, next neighbor of particle i: add its density contribution
Pass1_EvalPhi(i) ==
    /\ tri_phase = "pass1"
    /\ tri_p1[i] \in 1..Len(tri_cfg.nlist[i])
    /\ LET j == tri_cfg.nlist[i][tri_p1[i]]
       IN  tri_phi' = [tri_phi EXCEPT ![i] = evalPhi(PairEvaluator(i, j), @)]
    /\ tri_p1' = [tri_p1 EXCEPT ![i] = @ + 1]
    /\ UNCHANGED <<tri_cfg, tri_phase, tri_p2, tri_zeroed, tri_out, tri_last>>
    /\ UNCHANGED <<flatVars, vdwVars, afVars>>

\* the synchronisation point between the passes
Barrier ==
    /\ tri_phase = "pass1"
    /\ \A i \in TriParticles : tri_p1[i] = Len(tri_cfg.nlist[i]) + 1
    /\ tri_phase' = "pass2"
    /\ UNCHANGED <<tri_cfg, tri_p1, tri_p2, tri_zeroed, tri_phi, tri_out, tri_last>>
    /\ UNCHANGED <<flatVars, vdwVars, afVars>>

\* pass 2, first step for particle i: its self energy
Pass2_EvalSelfEnergy(i) ==
    /\ tri_phase = "pass2"
    /\ tri_p2[i] = 0
    /\ LET j == IF i = 1 THEN 2 ELSE 1
       IN  tri_out' = [tri_out EXCEPT
                          ![i].energy = evalSelfEnergy(PairEvaluator(i, j), tri_phi[i])]
    /\ tri_last' = [op |-> "evalSelfEnergy", i |-> i, phi |-> tri_phi[i]]
    /\ tri_p2' = [tri_p2 EXCEPT ![i] = 1]
    /\ UNCHANGED <<tri_cfg, tri_phase, tri_p1, tri_zeroed, tri_phi>>
    /\ UNCHANGED <<flatVars, vdwVars, afVars>>

\* pass 2, next neighbor of particle i: the ij force coefficient
Pass2_EvalForceij(i) ==
    /\ tri_phase = "pass2"
    /\ tri_p2[i] \in 1..Len(tri_cfg.nlist[i])
    /\ LET j == tri_cfg.nlist[i][tri_p2[i]]
           eval == PairEvaluator(i, j)
           res == IF evalRepulsiveAndAttractive(eval)
                  THEN evalForceij(eval, Scalar(0), Scalar(0), Scalar(0), tri_phi[i],
                                   Scalar(0), Scalar(0), Scalar(0))
                  ELSE [bij |-> Scalar(0), force_divr |-> Scalar(0),
                        potential_eng |-> Scalar(0)]
       IN  /\ tri_out' = [tri_out EXCEPT
                             ![i].force_divr = Append(@, res.force_divr)]
           /\ tri_last' = [op |-> "evalForceij", i |-> i, phi |-> tri_phi[i]]
    /\ tri_p2' = [tri_p2 EXCEPT ![i] = @ + 1]
    /\ UNCHANGED <<tri_cfg, tri_phase, tri_p1, tri_zeroed, tri_phi>>
    /\ UNCHANGED <<flatVars, vdwVars, afVars>>

\* the step is complete once every particle finished pass 2
EndStep ==
    /\ tri_phase = "pass2"
    /\ \A i \in TriParticles : tri_p2[i] = Len(tri_cfg.nlist[i]) + 1
    /\ tri_phase' = "done"
    /\ UNCHANGED <<tri_cfg, tri_p1, tri_p2, tri_zeroed, tri_phi, tri_out, tri_last>>
    /\ UNCHANGED <<flatVars, vdwVars, afVars>>

\* the next timestep starts over; the accumulators keep their old content
NextTimestep ==
    /\ tri_phase = "done"
    /\ tri_phase' = "pass1"
    /\ tri_p1' = [i \in TriParticles |-> 0]
    /\ tri_p2' = [i \in TriParticles |-> 0]
    /\ tri_zeroed' = [i \in TriParticles |-> 0]
    /\ tri_out' = NoForces
    /\ tri_last' = NoQuery
    /\ UNCHANGED <<tri_cfg, tri_phi>>
    /\ UNCHANGED <<flatVars, vdwVars, afVars>>

NextTri ==
    \/ \E i \in TriParticles : Pass1_ZeroPhi(i)
    \/ \E i \in TriParticles : Pass1_EvalPhi(i)
    \/ Barrier
    \/ \E i \in TriParticles : Pass2_EvalSelfEnergy(i)
    \/ \E i \in TriParticles : Pass2_EvalForceij(i)
    \/ EndStep
    \/ NextTimestep

SpecTri == InitTri /\ [][NextTri]_vars

(***************************************************************************)
(* ActiveForceComputeGPU                                                   *)
(***************************************************************************)
MaxTimestep == 1

Tags == {1, 2}
Timesteps == 0..MaxTimestep
\* the f_lst arguments drawn: one force vector per particle tag
ForceLists == {<<<<1, 0, 0>>, <<0, 2, 0>>>>, <<<<0, 0, 1>>, <<0, 0, 1>>>>}
\* particle positions drawn: points on the x and z axes of the constraint ellipsoid
Positions == {<<1, 0, 0>>, <<0, 0, 1>>}
\* particle orientations drawn: quarter turns about z
Orientations == {0, 1}
TagMaps == {m \in [Tags -> Tags] : \A t1, t2 \in Tags : m[t1] = m[t2] => t1 = t2}

Dot(u, v) == u[1] * v[1] + u[2] * v[2] + u[3] * v[3]
VScale(k, v) == <<k * v[1], k * v[2], k * v[3]>>
VSub(u, v) == <<u[1] - v[1], u[2] - v[2], u[3] - v[3]>>

QuarterTurn(axis, v) ==
    CASE axis = 1 -> <<v[1], -v[3], v[2]>>
      [] axis = 2 -> <<v[3], v[2], -v[1]>>
      [] OTHER -> <<-v[2], v[1], v[3]>>

RECURSIVE Rotate(_, _, _)
Rotate(axis, turns, v) ==
    IF turns = 0 THEN v ELSE Rotate(axis, turns - 1, QuarterTurn(axis, v))

\* ActiveForceCompute::ActiveForceCompute: stores the parameters and splits
\* every entry of f_lst into a unit direction and a magnitude
ActiveForceCompute(seed, f_lst, orientation_link, rotation_diff, rx, ry, rz) ==
    [params |-> [m_seed |-> seed, m_orientationLink |-> orientation_link,
                 m_rotationDiff |-> rotation_diff, m_rx |-> rx, m_ry |-> ry, m_rz |-> rz],
     active |-> [t \in Tags |->
                    LET mag == Abs(f_lst[t][1]) + Abs(f_lst[t][2]) + Abs(f_lst[t][3])
                    IN  [vec |-> <<f_lst[t][1] \div mag, f_lst[t][2] \div mag,
                                   f_lst[t][3] \div mag>>,
                         mag |-> mag]],
     force |-> [i \in Tags |-> <<0, 0, 0, 0>>]]

\* the constructor without the isCUDAEnabled test
CtorOutcome_unchecked(isCUDAEnabled) == "constructed"

\* ActiveForceComputeGPU::ActiveForceComputeGPU after the base constructor
CtorOutcome(isCUDAEnabled) ==
    IF ~isCUDAEnabled THEN "runtime_error" ELSE "constructed"

\* gpu_compute_active_force_set_constraints: every active direction loses its
\* component along the surface normal at the particle's position
set_constraints(active, pdata, params) ==
    [t \in Tags |->
        LET normal == pdata.pos[pdata.rtag[t]]
        IN  [active[t] EXCEPT !.vec = VSub(@, VScale(Dot(@, normal), normal))]]

\* gpu_compute_active_force_rotational_diffusion: every active direction is
\* rotated by an amount fixed by seed, timestep and particle tag; in 2-D the
\* rotation stays in the xy plane
rotational_diffusion(active, pdata, params, is2D, timestep) ==
    [t \in Tags |->
        LET draw == params.m_seed + timestep + t
            axis == IF is2D THEN 3 ELSE (draw % 3) + 1
        IN  [active[t] EXCEPT !.vec = Rotate(axis, draw % 4, @)]]

\* gpu_compute_active_force_set_forces: force = (orientation-transformed)
\* direction times magnitude, written at the particle's storage index
set_forces(active, pdata, orientationLink) ==
    [i \in Tags |->
        LET t == CHOOSE tag \in Tags : pdata.rtag[tag] = i
            dir == IF orientationLink
                   THEN Rotate(3, pdata.orient[i], active[t].vec)
                   ELSE active[t].vec
            f == VScale(active[t].mag, dir)
        IN  <<f[1], f[2], f[3], 0>>]

\* the test guarding setConstraint(), reading m_ry in place of m_rx
RunsConstraint_ry(params) == params.m_ry # 0

\* the test guarding setConstraint() in computeForces
RunsConstraint(params) == params.m_rx # 0

\* rotationalDiffusion() called without a test
RunsDiffusion_always(params) == TRUE

\* the test guarding rotationalDiffusion() in computeForces
RunsDiffusion(params) == params.m_rotationDiff # 0

\* the ArrayHandle declarations of setForces(): array, access location, access mode
setForces_handles ==
    [d_actVec |-> [array |-> "m_activeVec", location |-> "device", mode |-> "read"],
     d_actMag |-> [array |-> "m_activeMag", location |-> "device", mode |-> "read"],
     d_force |-> [array |-> "m_force", location |-> "device", mode |-> "overwrite"],
     d_orientation |-> [array |-> "orientation", location |-> "device", mode |-> "read"],
     d_rtag |-> [array |-> "rtag", location |-> "device", mode |-> "read"]]

\* the handles whose data pointer setForces() passes to its kernel
setForces_args == {"d_rtag", "d_force", "d_orientation", "d_actVec", "d_actMag"}

\* the ArrayHandle declarations of rotationalDiffusion()
rotationalDiffusion_handles ==
    [d_actVec |-> [array |-> "m_activeVec", location |-> "host", mode |-> "readwrite"],
     d_actMag |-> [array |-> "m_activeMag", location |-> "host", mode |-> "read"],
     d_pos |-> [array |-> "positions", location |-> "host", mode |-> "read"],
     d_rtag |-> [array |-> "rtag", location |-> "device", mode |-> "read"],
     d_force |-> [array |-> "m_force", location |-> "device", mode |-> "overwrite"]]

\* the handles whose data pointer rotationalDiffusion() passes to its kernel
rotationalDiffusion_args == {"d_rtag", "d_pos", "d_force", "d_actVec", "d_actMag"}

\* the ArrayHandle declarations of setConstraint()
setConstraint_handles ==
    [d_actVec |-> [array |-> "m_activeVec", location |-> "device", mode |-> "readwrite"],
     d_actMag |-> [array |-> "m_activeMag", location |-> "device", mode |-> "readwrite"],
     d_pos |-> [array |-> "positions", location |-> "device", mode |-> "read"],
     d_rtag |-> [array |-> "rtag", location |-> "device", mode |-> "read"],
     d_force |-> [array |-> "m_force", location |-> "device", mode |-> "overwrite"]]

\* the handles whose data pointer setConstraint() passes to its kernel
setConstraint_args == {"d_rtag", "d_pos", "d_force", "d_actVec", "d_actMag"}

\* the arrays a kernel stores into: the active directions in the constraint
\* and diffusion kernels, the force buffer in the force kernel
KernelWrites(kernel) ==
    IF kernel = "gpu_compute_active_force_set_forces"
    THEN {"m_force"}
    ELSE {"m_activeVec"}

\* a kernel launch: the handles behind the pointers passed and the arrays written
KernelLaunch(kernel, handles, args) ==
    [op |-> kernel,
     args |-> {handles[h] : h \in args},
     writes |-> KernelWrites(kernel)]

NoHistory == [n |-> 0, force |-> <<>>, active |-> <<>>]

InitActive ==
    /\ FlatIdle
    /\ VdWIdle
    /\ TriIdle
    /\ \E cuda \in BOOLEAN, is2D \in BOOLEAN, bodies \in {0, 1} :
          af_env = [isCUDAEnabled |-> cuda, is2D |-> is2D, numBodies |-> bodies]
    /\ af_obj = "none"
    /\ af_params = NoObject
    /\ af_active = <<>>
    /\ af_force = <<>>
    /\ af_pdata = [pos |-> [i \in Tags |-> <<1, 0, 0>>],
                   orient |-> [i \in Tags |-> 0],
                   rtag |-> [t \in Tags |-> t]]
    /\ af_pc = "idle"
    /\ af_call = NoQuery
    /\ af_steps = <<>>
    /\ af_hist = NoHistory
    /\ af_launch = NoQuery

\* the constructor: base class first, then the CUDA test; when it throws, the
\* object never comes into existence
Construct_ActiveForceComputeGPU ==
    /\ af_obj = "none"
    /\ \E f_lst \in ForceLists, orientation_link \in BOOLEAN,
          rotation_diff \in {0, 1}, rx \in {0, 1} :
          LET base == ActiveForceCompute(1, f_lst, orientation_link, rotation_diff,
                                         rx, 1, 1)
              outcome == CtorOutcome(af_env.isCUDAEnabled)
          IN  /\ af_obj' = outcome
              /\ IF outcome = "constructed"
                 THEN /\ af_params' = base.params
                      /\ af_active' = base.active
                      /\ af_force' = base.force
                 ELSE UNCHANGED <<af_params, af_active, af_force>>
    /\ UNCHANGED <<af_env, af_pdata, af_pc, af_call, af_steps, af_hist, af_launch>>
    /\ UNCHANGED <<flatVars, vdwVars, triVars>>

\* computeForces up to and including the shouldCompute test
computeForces_Enter ==
    /\ af_obj = "constructed"
    /\ af_pc = "idle"
    /\ \E timestep \in Timesteps, shouldCompute \in BOOLEAN :
          /\ af_call' = [timestep |-> timestep, shouldCompute |-> shouldCompute]
          /\ af_pc' = IF shouldCompute THEN "constraint" ELSE "end"
          /\ af_hist' = IF ~shouldCompute THEN NoHistory
                        ELSE IF af_hist.n = 0
                             THEN [n |-> 0, force |-> af_force, active |-> af_active]
                             ELSE [n |-> 1, force |-> af_force, active |-> af_hist.active]
    /\ af_steps' = <<>>
    /\ af_launch' = NoQuery
    /\ UNCHANGED <<af_env, af_obj, af_params, af_active, af_force, af_pdata>>
    /\ UNCHANGED <<flatVars, vdwVars, triVars>>

\* if (m_rx != 0) setConstraint();
computeForces_Constraint ==
    /\ af_pc = "constraint"
    /\ IF RunsConstraint(af_params)
       THEN /\ af_active' = set_constraints(af_active, af_pdata, af_params)
            /\ af_steps' = Append(af_steps, <<"setConstraint">>)
            /\ af_launch' = KernelLaunch("gpu_compute_active_force_set_constraints",
                                         setConstraint_handles, setConstraint_args)
       ELSE UNCHANGED <<af_active, af_steps, af_launch>>
    /\ af_pc' = "diffusion"
    /\ UNCHANGED <<af_env, af_obj, af_params, af_force, af_pdata, af_call, af_hist>>
    /\ UNCHANGED <<flatVars, vdwVars, triVars>>

\* if (m_rotationDiff != 0) rotationalDiffusion(timestep);
computeForces_Diffusion ==
    /\ af_pc = "diffusion"
    /\ IF RunsDiffusion(af_params)
       THEN /\ af_active' = rotational_diffusion(af_active, af_pdata, af_params,
                                                 af_env.is2D, af_call.timestep)
            /\ af_steps' = Append(af_steps, <<"rotationalDiffusion", af_call.timestep>>)
            /\ af_launch' = KernelLaunch("gpu_compute_active_force_rotational_diffusion",
                                         rotationalDiffusion_handles,
                                         rotationalDiffusion_args)
       ELSE UNCHANGED <<af_active, af_steps, af_launch>>
    /\ af_pc' = "forces"
    /\ UNCHANGED <<af_env, af_obj, af_params, af_force, af_pdata, af_call, af_hist>>
    /\ UNCHANGED <<flatVars, vdwVars, triVars>>

\* setForces();
computeForces_SetForces ==
    /\ af_pc = "forces"
    /\ LET orientationLink == af_params.m_orientationLink = TRUE /\ af_env.numBodies > 0
       IN  af_force' = set_forces(af_active, af_pdata, orientationLink)
    /\ af_steps' = Append(af_steps, <<"setForces">>)
    /\ af_launch' = KernelLaunch("gpu_compute_active_force_set_forces",
                                 setForces_handles, setForces_args)
    /\ af_pc' = "end"
    /\ UNCHANGED <<af_env, af_obj, af_params, af_active, af_pdata, af_call, af_hist>>
    /\ UNCHANGED <<flatVars, vdwVars, triVars>>

\* the error check and profiler pop that close computeForces
computeForces_Return ==
    /\ af_pc = "end"
    /\ af_pc' = "idle"
    /\ af_hist' = IF ~af_call.shouldCompute THEN NoHistory
                  ELSE IF af_hist.n = 0
                       THEN [af_hist EXCEPT !.n = 1, !.force = af_force]
                       ELSE [af_hist EXCEPT !.n = 2]
    /\ UNCHANGED <<af_env, af_obj, af_params, af_active, af_force, af_pdata, af_call,
                   af_steps, af_launch>>
    /\ UNCHANGED <<flatVars, vdwVars, triVars>>

\* between two calls the integrator moves a particle
Integrator_Move ==
    /\ af_obj = "constructed"
    /\ af_pc = "idle"
    /\ \E i \in Tags, pos \in Positions :
          /\ pos # af_pdata.pos[i]
          /\ af_pdata' = [af_pdata EXCEPT !.pos[i] = pos]
    /\ af_hist' = NoHistory
    /\ UNCHANGED <<af_env, af_obj, af_params, af_active, af_force, af_pc, af_call,
                   af_steps, af_launch>>
    /\ UNCHANGED <<flatVars, vdwVars, triVars>>

\* between two calls the integrator turns a particle
Integrator_Turn ==
    /\ af_obj = "constructed"
    /\ af_pc = "idle"
    /\ \E i \in Tags, q \in Orientations :
          /\ q # af_pdata.orient[i]
          /\ af_pdata' = [af_pdata EXCEPT !.orient[i] = q]
    /\ af_hist' = NoHistory
    /\ UNCHANGED <<af_env, af_obj, af_params, af_active, af_force, af_pc, af_call,
                   af_steps, af_launch>>
    /\ UNCHANGED <<flatVars, vdwVars, triVars>>

\* between two calls the particle data is re-sorted: storage order changes
ParticleData_Sort ==
    /\ af_obj = "constructed"
    /\ af_pc = "idle"
    /\ \E perm \in TagMaps :
          /\ \E t \in Tags : perm[t] # t
          /\ af_pdata' = [pos |-> [i \in Tags |-> af_pdata.pos[perm[i]]],
                          orient |-> [i \in Tags |-> af_pdata.orient[perm[i]]],
                          rtag |-> [t \in Tags |->
                                       CHOOSE i \in Tags : perm[i] = af_pdata.rtag[t]]]
    /\ af_hist' = NoHistory
    /\ UNCHANGED <<af_env, af_obj, af_params, af_active, af_force, af_pc, af_call,
                   af_steps, af_launch>>
    /\ UNCHANGED <<flatVars, vdwVars, triVars>>

NextActive ==
    \/ Construct_ActiveForceComputeGPU
    \/ computeForces_Enter
    \/ computeForces_Constraint
    \/ computeForces_Diffusion
    \/ computeForces_SetForces
    \/ computeForces_Return
    \/ Integrator_Move
    \/ Integrator_Turn
    \/ ParticleData_Sort

SpecActive == InitActive /\ [][NextActive]_vars

(***************************************************************************)
(* EvaluatorVanDerWaals: properties                                        *)
(***************************************************************************)
OutsideCutoff == evaluator # NoObject /\ ~RLess(evaluator.rij_sq, evaluator.rcutsq)
InsideCutoff == evaluator # NoObject /\ RLess(evaluator.rij_sq, evaluator.rcutsq)

\* C5: with rij_sq >= rcutsq (equality included) evalRepulsiveAndAttractive
\* returns false, evalPhi leaves phi as passed in, and evalForceij leaves
\* force_divr, bij and potential_eng as passed in.
C5_NoContributionOutsideCutoff ==
    OutsideCutoff
        => /\ vdw_call.op = "evalRepulsiveAndAttractive" => vdw_call.ret = FALSE
           /\ vdw_call.op = "evalPhi" => vdw_call.out.phi = vdw_call.in.phi
           /\ vdw_call.op = "evalForceij"
                 => /\ vdw_call.out.force_divr = vdw_call.in.force_divr
                    /\ vdw_call.out.bij = vdw_call.in.bij
                    /\ vdw_call.out.potential_eng = vdw_call.in.potential_eng

C5_Witness ==
    /\ evaluator # NoObject
    /\ evaluator.rij_sq = Scalar(4)
    /\ evaluator.rcutsq = Scalar(4)
    /\ vdw_call.op = "evalForceij"
    /\ vdw_call.in.force_divr = Scalar(1)
    /\ vdw_call.out.force_divr = Scalar(1)

\* C9 as stated: inside the cutoff evalForceij assigns force_divr and
\* potential_eng from phi, rij_sq, rcutsq and the parameter block, so what it
\* leaves in either of them is the same whatever value the caller passed in.
C9_ForceijAssignsBothOutputs ==
    (InsideCutoff /\ vdw_call.op = "evalForceij")
        => \A f0 \in CallerScalars, e0 \in CallerScalars :
              LET other == evalForceij(evaluator, Scalar(0), Scalar(0), Scalar(0),
                                       vdw_call.in.phi, vdw_call.in.bij, f0, e0)
              IN  /\ other.force_divr = vdw_call.out.force_divr
                  /\ other.potential_eng = vdw_call.out.potential_eng

(***************************************************************************)
(* ActiveForceComputeGPU: properties                                       *)
(***************************************************************************)
IsPrefix(short, long) ==
    /\ Len(short) <= Len(long)
    /\ \A k \in 1..Len(short) : short[k] = long[k]

\* the pipeline steps a call must invoke, in order
ExpectedSteps ==
    IF ~af_call.shouldCompute
    THEN <<>>
    ELSE (IF af_params.m_rx # 0 THEN << <<"setConstraint">> >> ELSE <<>>)
         \o (IF af_params.m_rotationDiff # 0
             THEN << <<"rotationalDiffusion", af_call.timestep>> >>
             ELSE <<>>)
         \o << <<"setForces">> >>

\* C1: a computeForces(timestep) call invokes nothing when shouldCompute is
\* false, and otherwise setConstraint (iff m_rx != 0), then
\* rotationalDiffusion(timestep) (iff m_rotationDiff != 0), then setForces,
\* each at most once, in that order, with setForces last.
C1_PipelineOrder ==
    af_call # NoQuery
        => /\ IsPrefix(af_steps, ExpectedSteps)
           /\ af_pc \in {"end", "idle"} => af_steps = ExpectedSteps

C1_Witness ==
    /\ af_pc = "idle"
    /\ af_call = [timestep |-> 1, shouldCompute |-> TRUE]
    /\ af_steps = << <<"setConstraint">>, <<"rotationalDiffusion", 1>>, <<"setForces">> >>

\* C6: with m_rotationDiff = 0 and m_rx = 0, two consecutive computing calls
\* with no change of the particle data in between leave the same force buffer,
\* and the active directions and magnitudes are as they were before the first.
C6_ForceAssemblyIdempotent ==
    (af_pc = "idle" /\ af_hist.n = 2
        /\ af_params.m_rotationDiff = 0 /\ af_params.m_rx = 0)
        => /\ af_force = af_hist.force
           /\ af_active = af_hist.active

C6_Witness ==
    /\ af_pc = "idle"
    /\ af_hist.n = 2
    /\ af_params.m_rotationDiff = 0
    /\ af_params.m_rx = 0
    /\ af_params.m_orientationLink
    /\ af_env.numBodies > 0
    /\ af_pdata.orient[1] = 1
    /\ af_force[1] = <<0, 1, 0, 0>>
    /\ af_force = af_hist.force

\* C7: without a CUDA device the constructor ends in a runtime_error and no
\* object exists, so no computeForces call and no pipeline step ever runs;
\* with a CUDA device the constructor does not raise that error.
C7_NoDeviceIsFatalAtConstruction ==
    /\ ~af_env.isCUDAEnabled
          => /\ af_obj \in {"none", "runtime_error"}
             /\ af_params = NoObject
             /\ af_pc = "idle"
             /\ af_call = NoQuery
             /\ af_steps = <<>>
    /\ af_env.isCUDAEnabled => af_obj \in {"none", "constructed"}

C7_Witness ==
    /\ ~af_env.isCUDAEnabled
    /\ af_obj = "runtime_error"

\* C11: every array pointer a pipeline step passes to its device kernel comes
\* from a handle acquired with access_location::device, every array the
\* kernel writes is held through a readwrite or overwrite handle, and no
\* array held read-only is written.
C11_DeviceHandlesAndWritableModes ==
    af_launch # NoQuery
        => /\ \A h \in af_launch.args : h.location = "device"
           /\ \A a \in af_launch.writes :
                 \E h \in af_launch.args :
                    h.array = a /\ h.mode \in {"readwrite", "overwrite"}
           /\ \A h \in af_launch.args : h.mode = "read" => h.array \notin af_launch.writes

(***************************************************************************)
(* Two-pass orchestration: properties                                      *)
(***************************************************************************)
\* the density weight of neighbor j for particle i, zero outside the cutoff
PairDensity(i, j) ==
    LET eval == PairEvaluator(i, j)
    IN  IF RLess(eval.rij_sq, eval.rcutsq)
        THEN RMul(RMul(WeightFac(eval), WeightFac(eval)), DensityNorm(eval))
        ELSE Scalar(0)

RECURSIVE SumDensity(_, _)
SumDensity(i, nbrs) ==
    IF nbrs = <<>> THEN Scalar(0)
    ELSE RAdd(PairDensity(i, Head(nbrs)), SumDensity(i, Tail(nbrs)))

\* the complete density of particle i: the sum over all its neighbors
CompleteDensity(i) == SumDensity(i, tri_cfg.nlist[i])

Pass1Complete(i) ==
    /\ tri_zeroed[i] = 1
    /\ tri_p1[i] = Len(tri_cfg.nlist[i]) + 1
    /\ tri_phi[i] = CompleteDensity(i)

\* C2: no evalForceij or evalSelfEnergy call of a step happens before every
\* particle's phi was zero-initialised once and received the evalPhi
\* contribution of each of its neighbors, and the phi handed to those calls
\* is the complete sum over the particle's neighbors.
C2_TwoPassOrdering ==
    /\ (tri_phase = "pass2" \/ \E i \in TriParticles : tri_p2[i] > 0)
          => \A k \in TriParticles : Pass1Complete(k)
    /\ tri_last.op \in {"evalForceij", "evalSelfEnergy"}
          => tri_last.phi = CompleteDensity(tri_last.i)

C2_Witness ==
    /\ tri_phase = "pass2"
    /\ tri_last.op = "evalForceij"
    /\ tri_last.i = 2
    /\ Len(tri_cfg.nlist[2]) = 2
    /\ PairDensity(2, 1) # Scalar(0)
    /\ PairDensity(2, 3) # Scalar(0)
    /\ tri_last.phi = RAdd(PairDensity(2, 1), PairDensity(2, 3))
    /\ tri_p2[1] = 0

(***************************************************************************)
(* FlatManifold: properties                                                *)
(***************************************************************************)
UpperSelectors ==
    {<<"X", "Y">>, <<"Y", "X">>, <<"X", "Z">>, <<"Z", "X">>, <<"Y", "Z">>, <<"Z", "Y">>}

\* index of the coordinate normal to the plane an upper-case selector names
NormalAxis(surf) ==
    IF surf \in {<<"X", "Y">>, <<"Y", "X">>} THEN 3
    ELSE IF surf \in {<<"X", "Z">>, <<"Z", "X">>} THEN 2
    ELSE 1

ToUpper(c) ==
    CASE c = "x" -> "X"
      [] c = "y" -> "Y"
      [] c = "z" -> "Z"
      [] OTHER -> c

\* the plane a selector spells when letter case and letter order are ignored
PlaneOf(surf) ==
    IF Len(surf) = 2 /\ ToUpper(surf[1]) # ToUpper(surf[2])
    THEN {ToUpper(surf[1]), ToUpper(surf[2])}
    ELSE {}

UnitVector(k) == [i \in 1..3 |-> IF i = k THEN 1 ELSE 0]
PointPlus(p, k) == [i \in 1..3 |-> IF i = k THEN p[i] + 1 ELSE p[i]]
Constructed == manifold # NoObject

\* C3: for a manifold built from one of the six upper-case selectors,
\* implicit_function(point) is point[normal axis] - shift, the normal axis
\* being z for XY/YX, y for XZ/ZX and x for YZ/ZY.
C3_ImplicitIsNormalCoordMinusShift ==
    (Constructed /\ fm_surf \in UpperSelectors /\ fm_query.op = "implicit_function")
        => fm_query.value = fm_query.point[NormalAxis(fm_surf)] - fm_shift

C3_Witness ==
    /\ Constructed
    /\ fm_surf = <<"X", "Y">>
    /\ fm_shift = 2
    /\ fm_query = [op |-> "implicit_function", point |-> <<5, 5, 7>>, value |-> 5]

\* C4: derivative(p) is a unit coordinate vector that depends neither on p
\* nor on the shift, and its k-th component is the forward difference
\* implicit_function(p + e_k) - implicit_function(p), for every configuration
\* the constructor can leave behind.
C4_DerivativeIsGradient ==
    (Constructed /\ fm_query.op = "derivative")
        => /\ fm_query.value \in {UnitVector(k) : k \in 1..3}
           /\ \A p \in Points, sh \in Shifts :
                 derivative([manifold EXCEPT !.m_shift = sh], p) = fm_query.value
           /\ \A k \in 1..3 :
                 implicit_function(manifold, PointPlus(fm_query.point, k))
                   - implicit_function(manifold, fm_query.point) = fm_query.value[k]

C4_Witness ==
    /\ Constructed
    /\ fm_surf = <<"Z", "X">>
    /\ fm_shift = -1
    /\ fm_query = [op |-> "derivative", point |-> <<1, 0, -1>>, value |-> <<0, 1, 0>>]

\* the result the last query would have had on a manifold built from surf2
SameQueryOn(surf2) ==
    LET other == FlatManifold(surf2, fm_shift, fm_alloc)
    IN  IF fm_query.op = "implicit_function"
        THEN implicit_function(other, fm_query.point)
        ELSE derivative(other, fm_query.point)

\* C8 as stated: any two spellings of the same plane, in either letter order
\* and any letter case, give manifolds whose implicit_function and derivative
\* agree at every point.
C8_CaseAndOrderInsensitive ==
    (Constructed /\ PlaneOf(fm_surf) # {} /\ fm_query.op # "none")
        => \A surf2 \in Selectors :
              PlaneOf(surf2) = PlaneOf(fm_surf) => SameQueryOn(surf2) = fm_query.value

\* C8 amended: the two upper-case spellings of a plane (either letter order)
\* give manifolds whose implicit_function and derivative agree at every point.
C8_OrderInsensitiveUpperCase ==
    (Constructed /\ fm_surf \in UpperSelectors /\ fm_query.op # "none")
        => \A surf2 \in UpperSelectors :
              PlaneOf(surf2) = PlaneOf(fm_surf) => SameQueryOn(surf2) = fm_query.value

C8_Witness ==
    /\ Constructed
    /\ fm_surf = <<"Y", "X">>
    /\ fm_shift = 1
    /\ fm_query = [op |-> "implicit_function", point |-> <<0, 1, -1>>, value |-> -2]

\* C10: a selector that is none of the six upper-case tokens constructs
\* without error, sets no axis flag and leaves m_surf as it was; the queries
\* then answer point.x - shift and (1,0,0), exactly as a YZ manifold does.
C10_UnrecognizedBehavesAsYZ ==
    (Constructed /\ fm_surf \notin UpperSelectors)
        => /\ manifold.kind = "FlatManifold"
           /\ ~manifold.xy /\ ~manifold.xz /\ ~manifold.yz
           /\ manifold.m_surf = fm_alloc
           /\ fm_query.op = "implicit_function"
                 => /\ fm_query.value = fm_query.point[1] - fm_shift
                    /\ fm_query.value = SameQueryOn(<<"Y", "Z">>)
           /\ fm_query.op = "derivative"
                 => /\ fm_query.value = <<1, 0, 0>>
                    /\ fm_query.value = SameQueryOn(<<"Y", "Z">>)

C10_Witness ==
    /\ Constructed
    /\ fm_surf = <<"x", "y">>
    /\ fm_shift = 2
    /\ fm_alloc = 7
    /\ manifold.m_surf = 7
    /\ fm_query = [op |-> "implicit_function", point |-> <<5, 5, 7>>, value |-> 3]

====
